---- MODULE Spec2Model ----
(***************************************************************************)
(* Model of qadence/analog/operations.py: the constructors of              *)
(* AnalogInteraction, AnalogDrive, AnalogRX, AnalogRY and AnalogRZ.        *)
(*                                                                         *)
(* A scalar is a symbolic expression.  Constants and products of a         *)
(* constant with powers of pi and of one free symbol are kept in a folded  *)
(* form (n/d) * pi^k * v^e, the way the symbolic library folds numeric     *)
(* coefficients; sums of unlike terms, square roots that do not fold and   *)
(* trigonometric functions stay unevaluated tree nodes.  Arithmetic is     *)
(* exact: the rounding of binary floating point is not modelled.           *)
(***************************************************************************)
EXTENDS Integers, Sequences, FiniteSets, TLC

\* Largest register (number of qubits) the model builds operations on.
MaxQubits == 2

\* The literal 1000 of the duration scaling and the literal 2 of omega / 2.
Thousand == 1000
Two == 2

----------------------------------------------------------------------------
\* Scalar expressions.

Abs(x) == IF x < 0 THEN -x ELSE x

RECURSIVE Gcd(_, _)
Gcd(a, b) == IF b = 0 THEN a ELSE Gcd(b, a % b)

\* The folded form (n/d) * pi^k * v^e, in lowest terms with d > 0.
Mono(n, d, k, v, e) ==
    IF n = 0
    THEN [op |-> "mono", n |-> 0, d |-> 1, k |-> 0, v |-> "", e |-> 0, args |-> <<>>]
    ELSE LET g == Gcd(Abs(n), Abs(d))
             s == IF d < 0 THEN -1 ELSE 1
         IN  [op |-> "mono", n |-> (s * n) \div g, d |-> (s * d) \div g, k |-> k,
              v |-> IF e = 0 THEN "" ELSE v, e |-> e, args |-> <<>>]

\* An unevaluated application of op to args.
Node(op, args) ==
    [op |-> op, n |-> 0, d |-> 1, k |-> 0, v |-> "", e |-> 0, args |-> args]

Num(n) == Mono(n, 1, 0, "", 0)
Sym(name) == Mono(1, 1, 0, name, 1)
Zero == Num(0)
One == Num(1)
\* qadence.types.PI
PI == Mono(1, 1, 1, "", 0)
\* The result of a division by the constant zero.
Zoo == Node("zoo", <<>>)
\* An attribute that has not been assigned.
Unset == Node("unset", <<>>)

IsMono(a) == a.op = "mono"
IsConstant(a) == IsMono(a) /\ a.v = ""
\* Two folded forms whose product is again a folded form.
Compatible(a, b) == IsMono(a) /\ IsMono(b) /\ (a.v = "" \/ b.v = "" \/ a.v = b.v)

EMul(a, b) ==
    IF a = Zoo \/ b = Zoo THEN Zoo
    ELSE IF a = Zero \/ b = Zero THEN Zero
    ELSE IF a = One THEN b
    ELSE IF b = One THEN a
    ELSE IF Compatible(a, b)
         THEN Mono(a.n * b.n, a.d * b.d, a.k + b.k,
                   IF a.v = "" THEN b.v ELSE a.v, a.e + b.e)
    ELSE Node("mul", <<a, b>>)

EDiv(a, b) ==
    IF a = Zoo \/ b = Zoo \/ b = Zero THEN Zoo
    ELSE IF IsMono(b) THEN EMul(a, Mono(b.d, b.n, -b.k, b.v, -b.e))
    ELSE Node("div", <<a, b>>)

ENeg(a) == EMul(Num(-1), a)

EAdd(a, b) ==
    IF a = Zoo \/ b = Zoo THEN Zoo
    ELSE IF a = Zero THEN b
    ELSE IF b = Zero THEN a
    ELSE IF IsMono(a) /\ IsMono(b) /\ a.k = b.k /\ a.v = b.v /\ a.e = b.e
         THEN Mono(a.n * b.d + b.n * a.d, a.d * b.d, a.k, a.v, a.e)
    ELSE Node("add", <<a, b>>)

ESquare(a) ==
    IF a = Zoo THEN Zoo
    ELSE IF IsMono(a) THEN Mono(a.n * a.n, a.d * a.d, 2 * a.k, a.v, 2 * a.e)
    ELSE Node("pow", <<a, Num(2)>>)

IsSquare(n) == \E r \in 0..n : r * r = n
IRoot(n) == CHOOSE r \in 0..n : r * r = n

\* sqrt folds for a non-negative constant that is a perfect square; the root
\* of a power of a free symbol is not simplified (its sign is unknown).
ESqrt(a) ==
    IF a = Zoo THEN Zoo
    ELSE IF IsConstant(a) /\ a.n >= 0 /\ a.k % 2 = 0 /\ IsSquare(a.n) /\ IsSquare(a.d)
         THEN Mono(IRoot(a.n), IRoot(a.d), a.k \div 2, "", 0)
    ELSE Node("sqrt", <<a>>)

ECos(a) == Node("cos", <<a>>)
ESin(a) == Node("sin", <<a>>)

----------------------------------------------------------------------------
\* Caller-supplied values of type TParameter: a Python number, a string
\* naming a free variable, or an expression already built.

Lit(x) == [kind |-> "num", name |-> "", x |-> x]
Str(s) == [kind |-> "str", name |-> s, x |-> Unset]
Expr(x) == [kind |-> "expr", name |-> "", x |-> x]
NoArg == [kind |-> "none", name |-> "", x |-> Unset]

\* Parameter(value): a number becomes a constant, a string a free symbol,
\* an expression is returned as it is.
Parameter(t) == IF t.kind = "str" THEN Sym(t.name) ELSE t.x

\* value == 0: a string is never equal to 0; a number or an expression is
\* equal to 0 exactly when it is the constant zero.
EqualsZero(t) == t.kind # "str" /\ t.x = Zero

----------------------------------------------------------------------------
\* Registers, qubit supports and blocks.

\* register.nodes as a tuple: qubits 0 .. n-1.
Nodes(register) == [j \in 1..register.n |-> j - 1]

None == [is_none |-> TRUE, tuple |-> <<>>]
Support(t) == [is_none |-> FALSE, tuple |-> t]

\* One summand of a generator: sign * scale * coef * op(qubit).  The
\* interaction and pattern terms act on the whole register (nreg qubits).
Block(sign, op, qubit, scale, coef, nreg) ==
    [sign |-> sign, op |-> op, qubit |-> qubit, scale |-> scale, coef |-> coef,
     nreg |-> nreg]

NoneBlock == Block(1, "None", -1, One, One, 0)

rydberg_interaction_hamiltonian(register) ==
    Block(1, "INT", -1, One, One, register.n)

rydberg_pattern_hamiltonian(register) ==
    IF register.pattern THEN Block(1, "PAT", -1, One, One, register.n) ELSE NoneBlock

\* -block for every block of a sum.
Negated(blocks) == [j \in 1..Len(blocks) |-> [blocks[j] EXCEPT !.sign = -@]]

----------------------------------------------------------------------------
\* Instances.

Blank ==
    [add_pattern |-> FALSE, duration |-> Unset, alpha |-> Unset,
     generator |-> <<>>, parameter |-> Unset,
     parameters |-> [r \in {} |-> Unset]]

\* HamEvo.__init__(generator, parameter): the time-evolution primitive keeps
\* the generator and the evolution parameter it is handed.
HamEvoInit(self, generator, parameter) ==
    [self EXCEPT !.generator = generator, !.parameter = parameter]

\* Mutant: the duration is handed on without the division by 1000.
ScaledDuration_Unscaled(duration) == duration

\* self.duration / 1000
ScaledDuration(duration) == EDiv(duration, Num(Thousand))

\* Mutant: the pattern term is added without checking that there is one.
AddPattern_WithoutNoneCheck(generator, add_pattern, generator_pattern) ==
    IF add_pattern THEN Append(generator, generator_pattern) ELSE generator

\* Mutant: an existing pattern term is added whatever add_pattern says.
AddPattern_IgnoringFlag(generator, add_pattern, generator_pattern) ==
    IF generator_pattern # NoneBlock
    THEN Append(generator, generator_pattern)
    ELSE generator

\* if add_pattern and generator_pattern is not None:
\*     generator = generator + generator_pattern
AddPattern(generator, add_pattern, generator_pattern) ==
    IF add_pattern /\ generator_pattern # NoneBlock
    THEN Append(generator, generator_pattern)
    ELSE generator

AnalogInteractionInit(self, register, duration, add_pattern) ==
    LET s1 == [self EXCEPT !.add_pattern = add_pattern,
                           !.duration = Parameter(duration)]
        generator == AddPattern(<<rydberg_interaction_hamiltonian(register)>>,
                                add_pattern, rydberg_pattern_hamiltonian(register))
        s2 == HamEvoInit(s1, generator, ScaledDuration(s1.duration))
    IN  [inst |-> [s2 EXCEPT !.parameters =
                      [parameter |-> ScaledDuration(s2.duration),
                       duration |-> s2.duration]],
         raised |-> ""]

\* Mutant: "or" in place of "and".
DriveInvalid_Either(omega, delta) == EqualsZero(omega) \/ EqualsZero(delta)

\* if omega == 0 and delta == 0: raise ValueError
DriveInvalid(omega, delta) == EqualsZero(omega) /\ EqualsZero(delta)

\* Mutant: a missing support is not replaced by the register's nodes.
DefaultSupport_NeverDefaults(qubit_support, register) == qubit_support.tuple

\* if qubit_support is None: qubit_support = tuple(register.nodes)
DefaultSupport(qubit_support, register) ==
    IF qubit_support.is_none THEN Nodes(register) ELSE qubit_support.tuple

x_terms(omega, phase, qubit_support) ==
    [j \in 1..Len(qubit_support) |->
        Block(1, "X", qubit_support[j], EDiv(omega, Num(Two)), ECos(phase), 0)]

y_terms(omega, phase, qubit_support) ==
    [j \in 1..Len(qubit_support) |->
        Block(1, "Y", qubit_support[j], EDiv(omega, Num(Two)), ESin(phase), 0)]

n_terms(delta, qubit_support) ==
    [j \in 1..Len(qubit_support) |->
        Block(1, "N", qubit_support[j], delta, One, 0)]

\* Mutant: the Y terms are added instead of subtracted.
DriveGenerator_PlusY(omega, delta, phase, qubit_support, register) ==
    x_terms(omega, phase, qubit_support)
      \o y_terms(omega, phase, qubit_support)
      \o Negated(n_terms(delta, qubit_support))
      \o <<rydberg_interaction_hamiltonian(register)>>

\* generator = x_terms - y_terms - n_terms + generator_interaction
DriveGenerator(omega, delta, phase, qubit_support, register) ==
    x_terms(omega, phase, qubit_support)
      \o Negated(y_terms(omega, phase, qubit_support))
      \o Negated(n_terms(delta, qubit_support))
      \o <<rydberg_interaction_hamiltonian(register)>>

\* Mutant: the squares are left out.
HNorm_NoSquares(omega, delta) == ESqrt(EAdd(omega, delta))

\* h_norm = sqrt(omega**2 + delta**2)
HNorm(omega, delta) == ESqrt(EAdd(ESquare(omega), ESquare(delta)))

\* Mutant: the division by 1000 is left out.
Alpha_Unscaled(duration, h_norm) == EMul(duration, h_norm)

\* alpha = self.duration * h_norm / 1000
Alpha(duration, h_norm) == EDiv(EMul(duration, h_norm), Num(Thousand))

DriveParamMap(self, omega, delta, phase) ==
    LET h_norm == HNorm(omega, delta)
        alpha == Alpha(self.duration, h_norm)
    IN  [parameter |-> ScaledDuration(self.duration),
         duration |-> self.duration,
         alpha |-> alpha,
         omega |-> omega,
         delta |-> delta,
         phase |-> phase,
         h_norm |-> h_norm]

AnalogDriveInit(self, register, duration, omega, delta, phase, qubit_support, add_pattern) ==
    LET s1 == [self EXCEPT !.add_pattern = add_pattern,
                           !.duration = Parameter(duration)]
    IN  IF DriveInvalid(omega, delta)
        THEN [inst |-> s1, raised |-> "Parameters omega and delta cannot both be 0."]
        ELSE LET support == DefaultSupport(qubit_support, register)
                 o == Parameter(omega)
                 d == Parameter(delta)
                 p == Parameter(phase)
                 generator == AddPattern(DriveGenerator(o, d, p, support, register),
                                         add_pattern,
                                         rydberg_pattern_hamiltonian(register))
                 s2 == HamEvoInit(s1, generator, ScaledDuration(s1.duration))
             IN  [inst |-> [s2 EXCEPT !.parameters = DriveParamMap(s2, o, d, p)],
                  raised |-> ""]

\* The fixed drive parameters of the three rotations.
RXPreset == [omega |-> Lit(PI), delta |-> Lit(Zero), phase |-> Lit(Zero)]

\* Mutant: the rotation about Y is given the detuning-only drive of AnalogRZ.
RYPreset_DetunedLikeRZ ==
    [omega |-> Lit(Zero), delta |-> Lit(PI),
     phase |-> Lit(EDiv(ENeg(PI), Num(Two)))]

RYPreset == [omega |-> Lit(PI), delta |-> Lit(Zero),
             phase |-> Lit(EDiv(ENeg(PI), Num(Two)))]
RZPreset == [omega |-> Lit(Zero), delta |-> Lit(PI), phase |-> Lit(Zero)]

\* self.alpha / omega * 1000   (AnalogRX, AnalogRY)
DurationFromOmega(alpha, preset) ==
    EMul(EDiv(alpha, Parameter(preset.omega)), Num(Thousand))

\* Mutant: AnalogRZ divides by omega, as AnalogRX and AnalogRY do.
DurationFromDelta_ByOmega(alpha, preset) ==
    EMul(EDiv(alpha, Parameter(preset.omega)), Num(Thousand))

\* self.alpha / delta * 1000   (AnalogRZ)
DurationFromDelta(alpha, preset) ==
    EMul(EDiv(alpha, Parameter(preset.delta)), Num(Thousand))

AnalogRXInit(self, register, angle, qubit_support, add_pattern) ==
    LET s1 == [self EXCEPT !.alpha = Parameter(angle)]
    IN  AnalogDriveInit(s1, register, Expr(DurationFromOmega(s1.alpha, RXPreset)),
                        RXPreset.omega, RXPreset.delta, RXPreset.phase,
                        qubit_support, add_pattern)

AnalogRYInit(self, register, angle, qubit_support, add_pattern) ==
    LET s1 == [self EXCEPT !.alpha = Parameter(angle)]
    IN  AnalogDriveInit(s1, register, Expr(DurationFromOmega(s1.alpha, RYPreset)),
                        RYPreset.omega, RYPreset.delta, RYPreset.phase,
                        qubit_support, add_pattern)

AnalogRZInit(self, register, angle, qubit_support, add_pattern) ==
    LET s1 == [self EXCEPT !.alpha = Parameter(angle)]
    IN  AnalogDriveInit(s1, register, Expr(DurationFromDelta(s1.alpha, RZPreset)),
                        RZPreset.omega, RZPreset.delta, RZPreset.phase,
                        qubit_support, add_pattern)

----------------------------------------------------------------------------
\* The calls the model makes.

Registers == [n : 1..MaxQubits, pattern : BOOLEAN]

RECURSIVE Ascending(_)
Ascending(S) ==
    IF S = {} THEN <<>>
    ELSE LET m == CHOOSE x \in S : \A y \in S : x <= y
         IN  <<m>> \o Ascending(S \ {m})

\* No support, or any tuple of distinct qubits of the register (the empty
\* tuple included).
SupportsOf(register) ==
    {None} \cup {Support(Ascending(S)) : S \in SUBSET (0..(register.n - 1))}

Durations == {Lit(Num(1000)), Lit(Num(250)), Str("t"), Expr(EMul(Num(2), Sym("t")))}

Amplitudes ==
    {Lit(Zero), Lit(Num(3)), Lit(PI), Str("w"),
     Expr(EMul(Sym("w"), Zero)), Expr(EAdd(Sym("w"), One))}

Detunings ==
    {Lit(Zero), Lit(Num(4)), Lit(PI), Str("d"),
     Expr(EMul(Sym("d"), Zero)), Expr(EDiv(Sym("d"), Num(2)))}

Phases == {Lit(Zero), Lit(EDiv(ENeg(PI), Num(Two))), Str("phi")}

Angles ==
    {Lit(Zero), Lit(One), Lit(PI), Lit(EDiv(PI, Num(2))), Str("theta"),
     Expr(EMul(Num(2), Sym("theta")))}

Call(cls, register, duration, angle, omega, delta, phase, qubit_support, add_pattern) ==
    [cls |-> cls, register |-> register, duration |-> duration, angle |-> angle,
     omega |-> omega, delta |-> delta, phase |-> phase,
     qubit_support |-> qubit_support, add_pattern |-> add_pattern]

InteractionCalls ==
    {Call("AnalogInteraction", r, t, NoArg, NoArg, NoArg, NoArg, None, b) :
        r \in Registers, t \in Durations, b \in BOOLEAN}

DriveCalls ==
    UNION {{Call("AnalogDrive", r, t[1], NoArg, t[2], t[3], t[4], s, b) :
                s \in SupportsOf(r), b \in BOOLEAN,
                t \in Durations \X Amplitudes \X Detunings \X Phases} :
           r \in Registers}

RotationCalls(cls) ==
    UNION {{Call(cls, r, NoArg, a, NoArg, NoArg, NoArg, s, b) :
                s \in SupportsOf(r), b \in BOOLEAN, a \in Angles} :
           r \in Registers}

Calls ==
    InteractionCalls \cup DriveCalls \cup RotationCalls("AnalogRX")
      \cup RotationCalls("AnalogRY") \cup RotationCalls("AnalogRZ")

----------------------------------------------------------------------------
VARIABLES call, inst, raised, pc

vars == <<call, inst, raised, pc>>

Init ==
    /\ call \in Calls
    /\ inst = Blank
    /\ raised = ""
    /\ pc = "call"

Return(r) ==
    /\ inst' = r.inst
    /\ raised' = r.raised
    /\ pc' = IF r.raised = "" THEN "constructed" ELSE "raised"
    /\ UNCHANGED call

AnalogInteraction ==
    /\ pc = "call"
    /\ call.cls = "AnalogInteraction"
    /\ Return(AnalogInteractionInit(inst, call.register, call.duration,
                                    call.add_pattern))

AnalogDrive ==
    /\ pc = "call"
    /\ call.cls = "AnalogDrive"
    /\ Return(AnalogDriveInit(inst, call.register, call.duration, call.omega,
                              call.delta, call.phase, call.qubit_support,
                              call.add_pattern))

AnalogRX ==
    /\ pc = "call"
    /\ call.cls = "AnalogRX"
    /\ Return(AnalogRXInit(inst, call.register, call.angle, call.qubit_support,
                           call.add_pattern))

AnalogRY ==
    /\ pc = "call"
    /\ call.cls = "AnalogRY"
    /\ Return(AnalogRYInit(inst, call.register, call.angle, call.qubit_support,
                           call.add_pattern))

AnalogRZ ==
    /\ pc = "call"
    /\ call.cls = "AnalogRZ"
    /\ Return(AnalogRZInit(inst, call.register, call.angle, call.qubit_support,
                           call.add_pattern))

Next == AnalogInteraction \/ AnalogDrive \/ AnalogRX \/ AnalogRY \/ AnalogRZ

Spec == Init /\ [][Next]_vars

Constructed == pc = "constructed"

----------------------------------------------------------------------------
\* Vocabulary of the properties.

DriveClasses == {"AnalogDrive", "AnalogRX", "AnalogRY", "AnalogRZ"}
RotationClasses == {"AnalogRX", "AnalogRY", "AnalogRZ"}

\* A value that is a constant (not a string, no free symbol, no unevaluated
\* node) and whose numerator is 0.
IsLiteralZero(t) == t.kind \in {"num", "expr"} /\ IsConstant(t.x) /\ t.x.n = 0

\* The drive parameters an operation is meant to be built with: the caller's
\* for the generic drive, the fixed ones for the rotations.
MeantOmega ==
    CASE call.cls = "AnalogDrive" -> Parameter(call.omega)
      [] call.cls \in {"AnalogRX", "AnalogRY"} -> PI
      [] call.cls = "AnalogRZ" -> Zero

MeantDelta ==
    CASE call.cls = "AnalogDrive" -> Parameter(call.delta)
      [] call.cls \in {"AnalogRX", "AnalogRY"} -> Zero
      [] call.cls = "AnalogRZ" -> PI

MeantPhase ==
    CASE call.cls = "AnalogDrive" -> Parameter(call.phase)
      [] call.cls \in {"AnalogRX", "AnalogRZ"} -> Zero
      [] call.cls = "AnalogRY" -> Mono(-1, 2, 1, "", 0)

\* The qubit support S the drive is built with.
MeantSupport ==
    IF call.qubit_support.is_none THEN Nodes(call.register)
    ELSE call.qubit_support.tuple

SeqRange(q) == {q[j] : j \in 1..Len(q)}

\* How many summands of the generator are sign * scale * coef * op(qubit).
Count(sign, op, qubit, scale, coef) ==
    Cardinality({j \in 1..Len(inst.generator) :
        inst.generator[j] = Block(sign, op, qubit, scale, coef, 0)})

CountOp(op) ==
    Cardinality({j \in 1..Len(inst.generator) : inst.generator[j].op = op})

Times(qubit, q) == Cardinality({j \in 1..Len(q) : q[j] = qubit})

\* The qubits the generator has an X term on, in order.
IsX(b) == b.op = "X"
UsedSupport ==
    LET xs == SelectSeq(inst.generator, IsX)
    IN  [j \in 1..Len(xs) |-> xs[j].qubit]

\* The instance the same call builds with some fields of the call replaced.
Construct(c) ==
    CASE c.cls = "AnalogInteraction" ->
           AnalogInteractionInit(Blank, c.register, c.duration, c.add_pattern)
      [] c.cls = "AnalogDrive" ->
           AnalogDriveInit(Blank, c.register, c.duration, c.omega, c.delta,
                           c.phase, c.qubit_support, c.add_pattern)
      [] c.cls = "AnalogRX" ->
           AnalogRXInit(Blank, c.register, c.angle, c.qubit_support, c.add_pattern)
      [] c.cls = "AnalogRY" ->
           AnalogRYInit(Blank, c.register, c.angle, c.qubit_support, c.add_pattern)
      [] c.cls = "AnalogRZ" ->
           AnalogRZInit(Blank, c.register, c.angle, c.qubit_support, c.add_pattern)

----------------------------------------------------------------------------
\* C1: constructing the generic drive raises the invalid-drive error exactly
\* when omega and delta are both the literal constant zero; with any other
\* pair (one of them zero, both non-zero, or either a free or compound
\* expression) construction succeeds.
C1_InvalidDriveIffBothLiteralZero ==
    (call.cls = "AnalogDrive" /\ pc # "call") =>
        /\ (pc = "raised") <=>
               (IsLiteralZero(call.omega) /\ IsLiteralZero(call.delta))
        /\ (pc = "raised") =>
               raised = "Parameters omega and delta cannot both be 0."
        /\ (pc = "constructed") => raised = ""

C1_Witness ==
    /\ call.cls = "AnalogDrive"
    /\ pc = "raised"
    /\ call.omega = Lit(Zero)
    /\ call.delta = Lit(Zero)

\* C2: the generator of a drive built with qubit support S is, for each qubit
\* i of S, + (omega/2) cos(phase) X(i), - (omega/2) sin(phase) Y(i) and
\* - delta N(i), plus the interaction term of the register, plus the pattern
\* term only when add_pattern is true and the register has a pattern; no qubit
\* outside S has an X, Y or N term.
C2_DriveGeneratorTerms ==
    (call.cls \in DriveClasses /\ Constructed) =>
        LET half == EDiv(MeantOmega, Num(2))
            pat == IF call.add_pattern /\ call.register.pattern THEN 1 ELSE 0
        IN  /\ \A i \in SeqRange(MeantSupport) :
                 /\ Count(1, "X", i, half, ECos(MeantPhase)) = Times(i, MeantSupport)
                 /\ Count(-1, "Y", i, half, ESin(MeantPhase)) = Times(i, MeantSupport)
                 /\ Count(-1, "N", i, MeantDelta, One) = Times(i, MeantSupport)
            /\ \A j \in 1..Len(inst.generator) :
                 inst.generator[j].op \in {"X", "Y", "N"} =>
                     inst.generator[j].qubit \in SeqRange(MeantSupport)
            /\ CountOp("X") = Len(MeantSupport)
            /\ CountOp("Y") = Len(MeantSupport)
            /\ CountOp("N") = Len(MeantSupport)
            /\ Cardinality({j \in 1..Len(inst.generator) :
                   inst.generator[j] = Block(1, "INT", -1, One, One, call.register.n)}) = 1
            /\ Cardinality({j \in 1..Len(inst.generator) :
                   inst.generator[j] = Block(1, "PAT", -1, One, One, call.register.n)}) = pat
            /\ Len(inst.generator) = 3 * Len(MeantSupport) + 1 + pat

C2_Witness ==
    /\ call.cls = "AnalogDrive"
    /\ Constructed
    /\ call.register.n = 2
    /\ call.qubit_support = Support(<<1>>)
    /\ call.omega = Lit(Num(3))
    /\ call.delta = Lit(Num(4))
    /\ call.phase = Str("phi")
    /\ Len(inst.generator) = 4

\* C3: for every operation the duration handed to the time-evolution
\* primitive is the operation's duration divided by 1000, and the role
\* "parameter" of the parameter map holds that same value.
C3_ScaledDuration ==
    Constructed =>
        /\ inst.parameter = EDiv(inst.duration, Num(1000))
        /\ EMul(inst.parameter, Num(1000)) = inst.duration
        /\ inst.parameters.parameter = inst.parameter
        /\ inst.parameters.duration = inst.duration
        /\ call.cls \in {"AnalogInteraction", "AnalogDrive"} =>
               inst.duration = Parameter(call.duration)

C3_Witness ==
    /\ call.cls = "AnalogInteraction"
    /\ Constructed
    /\ call.duration = Lit(Num(250))
    /\ inst.parameter = Mono(1, 4, 0, "", 0)

\* C4: after a successful construction of a drive the parameter map holds the
\* roles parameter, duration, alpha, omega, delta, phase and h_norm, with
\* h_norm = sqrt(omega^2 + delta^2) and alpha = duration * h_norm / 1000,
\* from the omega, delta and duration the generator was built with.
C4_DriveParameterMap ==
    (call.cls \in DriveClasses /\ Constructed) =>
        LET pm == inst.parameters
            sumsq == EAdd(ESquare(MeantOmega), ESquare(MeantDelta))
        IN  /\ DOMAIN pm = {"parameter", "duration", "alpha", "omega", "delta",
                            "phase", "h_norm"}
            /\ pm.omega = MeantOmega
            /\ pm.delta = MeantDelta
            /\ pm.phase = MeantPhase
            /\ pm.duration = inst.duration
            /\ pm.h_norm = ESqrt(sumsq)
            /\ IsMono(pm.h_norm) => ESquare(pm.h_norm) = sumsq
            /\ pm.alpha = EDiv(EMul(pm.duration, pm.h_norm), Num(1000))
            /\ inst.parameter = EDiv(pm.duration, Num(1000))
            /\ \A j \in 1..Len(inst.generator) :
                 /\ inst.generator[j].op \in {"X", "Y"} =>
                        inst.generator[j].scale = EDiv(pm.omega, Num(2))
                 /\ inst.generator[j].op = "N" => inst.generator[j].scale = pm.delta

C4_Witness ==
    /\ call.cls = "AnalogDrive"
    /\ Constructed
    /\ call.omega = Lit(Num(3))
    /\ call.delta = Lit(Num(4))
    /\ call.duration = Lit(Num(1000))
    /\ inst.parameters.h_norm = Num(5)
    /\ inst.parameters.alpha = Num(5)

\* C5: for every angle theta the rotation about X hands theta/pi to the
\* evolution primitive (duration theta/omega*1000 with omega = pi, divided by
\* 1000), and so does the rotation about Z, which divides by delta = pi, its
\* omega being 0.
C5_RotationEffectiveDuration ==
    (call.cls \in {"AnalogRX", "AnalogRZ"} /\ Constructed) =>
        LET theta == Parameter(call.angle)
        IN  /\ inst.parameter = EDiv(theta, PI)
            /\ inst.duration = EMul(EDiv(theta, PI), Num(1000))
            /\ call.cls = "AnalogRX" =>
                   inst.parameters.omega = PI /\ inst.parameters.delta = Zero
            /\ call.cls = "AnalogRZ" =>
                   inst.parameters.omega = Zero /\ inst.parameters.delta = PI

C5_Witness ==
    /\ call.cls = "AnalogRZ"
    /\ Constructed
    /\ call.angle = Lit(EDiv(PI, Num(2)))
    /\ inst.parameter = Mono(1, 2, 0, "", 0)

\* C6: when the register has no pattern the generator of every operation is
\* the same with add_pattern true and with add_pattern false: no pattern term
\* is added.
C6_AbsentPatternNeverAdded ==
    (Constructed /\ ~call.register.pattern) =>
        /\ inst.generator =
               Construct([call EXCEPT !.add_pattern = ~call.add_pattern]).inst.generator
        /\ \A j \in 1..Len(inst.generator) :
               inst.generator[j].op \notin {"PAT", "None"}

C6_Witness ==
    /\ call.cls = "AnalogRX"
    /\ Constructed
    /\ ~call.register.pattern
    /\ call.add_pattern
    /\ call.qubit_support = None
    /\ Len(inst.generator) = 3 * call.register.n + 1

\* C7: the generator of the pure-interaction operation with add_pattern false
\* is the interaction term alone, whether or not the register has a pattern;
\* with add_pattern true it is the interaction term plus the pattern term
\* exactly when the register has a pattern.
C7_InteractionGenerator ==
    (call.cls = "AnalogInteraction" /\ Constructed) =>
        LET int == Block(1, "INT", -1, One, One, call.register.n)
            pat == Block(1, "PAT", -1, One, One, call.register.n)
        IN  /\ ~call.add_pattern => inst.generator = <<int>>
            /\ (call.add_pattern /\ call.register.pattern) =>
                   inst.generator = <<int, pat>>
            /\ (call.add_pattern /\ ~call.register.pattern) =>
                   inst.generator = <<int>>

C7_Witness ==
    /\ call.cls = "AnalogInteraction"
    /\ Constructed
    /\ ~call.add_pattern
    /\ call.register.pattern
    /\ Len(inst.generator) = 1

\* C8: for equal angles the rotation about Y differs from the rotation about
\* X only in phase (-pi/2 against 0): omega, delta, duration, alpha, h_norm
\* and the duration handed to the evolution primitive are the same.
C8_RYDiffersFromRXOnlyInPhase ==
    (call.cls = "AnalogRY" /\ Constructed) =>
        LET rx == Construct([call EXCEPT !.cls = "AnalogRX"]).inst
            others == {"parameter", "duration", "alpha", "omega", "delta", "h_norm"}
        IN  /\ \A r \in others : inst.parameters[r] = rx.parameters[r]
            /\ inst.parameters.phase = Mono(-1, 2, 1, "", 0)
            /\ rx.parameters.phase = Zero
            /\ inst.parameter = rx.parameter
            /\ inst.duration = rx.duration
            /\ inst.alpha = rx.alpha
            /\ inst.add_pattern = rx.add_pattern
            /\ Len(inst.generator) = Len(rx.generator)
            /\ \A j \in 1..Len(rx.generator) :
                 /\ [inst.generator[j] EXCEPT !.coef = One]
                        = [rx.generator[j] EXCEPT !.coef = One]
                 /\ rx.generator[j].op = "X" =>
                        /\ rx.generator[j].coef = ECos(Zero)
                        /\ inst.generator[j].coef = ECos(Mono(-1, 2, 1, "", 0))

C8_Witness ==
    /\ call.cls = "AnalogRY"
    /\ Constructed
    /\ call.angle = Str("theta")
    /\ inst.parameters.alpha = Sym("theta")
    /\ inst.parameters.h_norm = PI

\* C9: for each rotation and every angle the attribute alpha holds the
\* caller's angle after the drive's construction has run, and the derived
\* alpha of the parameter map, duration * h_norm / 1000, equals that angle.
C9_RotationAlpha ==
    (call.cls \in RotationClasses /\ Constructed) =>
        /\ inst.alpha = Parameter(call.angle)
        /\ inst.parameters.alpha =
               EDiv(EMul(inst.parameters.duration, inst.parameters.h_norm), Num(1000))
        /\ inst.parameters.alpha = inst.alpha

C9_Witness ==
    /\ call.cls = "AnalogRZ"
    /\ Constructed
    /\ call.angle = Expr(EMul(Num(2), Sym("theta")))
    /\ inst.alpha = Mono(2, 1, 0, "theta", 1)
    /\ inst.parameters.alpha = Mono(2, 1, 0, "theta", 1)

\* C10 as stated: the qubit support of the drive terms is non-empty whenever
\* a drive is constructed from a non-empty register; it is all nodes of the
\* register when no support is given and the given support otherwise.
C10_SupportNonEmpty ==
    (call.cls \in DriveClasses /\ Constructed /\ call.register.n > 0) =>
        /\ Len(UsedSupport) > 0
        /\ call.qubit_support.is_none => UsedSupport = Nodes(call.register)
        /\ ~call.qubit_support.is_none => UsedSupport = call.qubit_support.tuple

\* C10 amended: the qubit support of the drive terms is all nodes of the
\* register when no support is given and the given support otherwise; it is
\* non-empty whenever the register is non-empty and the support is either
\* not given or a non-empty tuple.
C10_SupportNonEmptyUnlessGivenEmpty ==
    (call.cls \in DriveClasses /\ Constructed /\ call.register.n > 0) =>
        /\ call.qubit_support.is_none => UsedSupport = Nodes(call.register)
        /\ ~call.qubit_support.is_none => UsedSupport = call.qubit_support.tuple
        /\ (call.qubit_support.is_none \/ Len(call.qubit_support.tuple) > 0) =>
               Len(UsedSupport) > 0

C10_Witness ==
    /\ call.cls = "AnalogDrive"
    /\ Constructed
    /\ call.register.n = 2
    /\ call.qubit_support = None
    /\ UsedSupport = <<0, 1>>
====
